---- MODULE Spec2Model ----
(***************************************************************************)
(* Model of the endpoint-fetcher caching plugin (src/index.ts): the        *)
(* in-memory LRU storage, the default key generator, the handler wrapper   *)
(* (cache lookup, fetch on miss), the CachingWrapper object with its       *)
(* isStale getter and its refresh / invalidate closures, and the plugin    *)
(* methods clear / invalidate / invalidateKey.                             *)
(*                                                                         *)
(* Time is the millisecond reading of `new Date()`.  The only suspension   *)
(* point of a handler or of refresh() is `await originalHandler(...)`:     *)
(* everything before it is one atomic step, everything after it another.   *)
(*                                                                         *)
(* Spec follows a client from construction; SpecWarm and SpecHeld follow a *)
(* client from the moment its first call has completed, with one endpoint  *)
(* and with two; SpecStore, SpecStoreAnyKey and SpecStoreClock exercise    *)
(* the storage class on its own; SpecKey exercises the key generator; and  *)
(* SpecPair follows two clients, each built with its own call of cache().  *)
(***************************************************************************)
EXTENDS Integers, Sequences, FiniteSets, TLC

(* ------------------------------ bounds ------------------------------- *)

\* The clock is observed over MaxSec time-to-live periods (seconds, for a
\* ttl of 1).
MaxSec == 1

\* At most MaxOrigin invocations of the origin operation are followed.
MaxOrigin == 2

\* The storage class on its own is tried with maxSize 1..MaxStore.
MaxStore == 2

(* ------------------------- program constants ------------------------- *)

\* `ttl * 1000`: ttl is configured in seconds, Date arithmetic is in ms.
MsPerSec == 1000

\* `ttl = 300`: the time-to-live, in seconds, of a plugin built without one.
DefaultTtl == 300

(* ------------------------------ inputs ------------------------------- *)

\* JavaScript values passed as the request input.
Undefined == "undefined"
Null == "null"
Obj1 == "{id:1}"
EmptyString == "''"
False == "false"

\* JSON.stringify on the inputs above.
JSONstringify(input) ==
  CASE input = Obj1 -> "{\"id\":1}"
    [] input = Null -> "null"
    [] input = EmptyString -> "\"\""
    [] input = False -> "false"
    [] OTHER -> "undefined"

\* The requests clients issue: (context.method, context.path, input).
Requests ==
  { [method |-> "GET",  path |-> "/a", input |-> Undefined],
    [method |-> "GET",  path |-> "/a", input |-> Null],
    [method |-> "GET",  path |-> "/a", input |-> Obj1],
    [method |-> "POST", path |-> "/a", input |-> Obj1] }

NoReq == [method |-> "", path |-> "", input |-> Undefined]

(* --------------------------- configuration --------------------------- *)

\* maxSize: Infinity or a finite entry count.
Infinity == [inf |-> TRUE, n |-> 0]
Finite(n) == [inf |-> FALSE, n |-> n]

\* size >= maxSize on JavaScript numbers, Infinity included.
SizeAtLeast(size, maxSize) == (~maxSize.inf) /\ size >= maxSize.n

\* The endpoints of a client with an optional { id } input and a POST, of
\* a client whose GET endpoint takes an optional { id }, of a client with a
\* GET and a POST taking { id }, of a client whose GET endpoint is called
\* with no input or with null, and of a client with a single GET endpoint
\* without input.
WithObject == { r \in Requests : r.input # Null }
OptionalId == { r \in Requests : r.method = "GET" /\ r.input # Null }
WithPost == { r \in Requests : r.input = Obj1 }
WithoutInput == { r \in Requests : r.method = "GET" /\ r.input # Obj1 }
OnlyGet == { r \in Requests : r.method = "GET" /\ r.input = Undefined }

\* `new InMemoryCacheStorage(maxSize)`: the default of the storage option,
\* an object constructed by the call of cache() that evaluates it.  A
\* storage the caller passes is named by the caller's object.
NewStorage == "new InMemoryCacheStorage(maxSize)"

\* Mutant: cache(config) with a default time-to-live of one second.
cachePluginShortTtl(config) ==
  [ttl |-> IF "ttl" \in DOMAIN config THEN config.ttl ELSE 1,
   methods |-> IF "methods" \in DOMAIN config THEN config.methods
               ELSE {"GET"},
   maxSize |-> IF "maxSize" \in DOMAIN config THEN config.maxSize
               ELSE Infinity,
   keyGenerator |-> IF "keyGenerator" \in DOMAIN config
                    THEN config.keyGenerator ELSE "default",
   storage |-> IF "storage" \in DOMAIN config THEN config.storage
               ELSE NewStorage,
   given |-> DOMAIN config \ {"requests"},
   requests |-> config.requests]

\* cache(config): the destructuring of the configuration, an option left
\* out taking its default (ttl, methods, maxSize, keyGenerator, storage;
\* the default storage is the InMemoryCacheStorage modelled below).  `given`
\* remembers which options the caller passed, `requests` the endpoints of
\* the client the plugin is installed in.
cachePlugin(config) ==
  [ttl |-> IF "ttl" \in DOMAIN config THEN config.ttl ELSE DefaultTtl,
   methods |-> IF "methods" \in DOMAIN config THEN config.methods
               ELSE {"GET"},
   maxSize |-> IF "maxSize" \in DOMAIN config THEN config.maxSize
               ELSE Infinity,
   keyGenerator |-> IF "keyGenerator" \in DOMAIN config
                    THEN config.keyGenerator ELSE "default",
   storage |-> IF "storage" \in DOMAIN config THEN config.storage
               ELSE NewStorage,
   given |-> DOMAIN config \ {"requests"},
   requests |-> config.requests]

\* Clients built with the plugin, as the configuration passed to cache()
\* plus the requests the client's endpoints issue: cache({ ttl: 1 }), a
\* store of one entry with POST cacheable and the custom key generator of
\* the tests (once for the endpoint with an optional input, once for the GET
\* and POST pair), cache() without any option for the client without input,
\* and maxSize: 0.
Configs ==
  { cachePlugin([ttl |-> 1, requests |-> WithObject]),
    cachePlugin([ttl |-> 1, methods |-> {"GET", "POST"},
                 maxSize |-> Finite(1), keyGenerator |-> "custom",
                 requests |-> OptionalId]),
    cachePlugin([ttl |-> 1, methods |-> {"GET", "POST"},
                 maxSize |-> Finite(1), keyGenerator |-> "custom",
                 requests |-> WithPost]),
    cachePlugin([requests |-> WithoutInput]),
    cachePlugin([ttl |-> 1, maxSize |-> Finite(0), requests |-> OnlyGet]) }

VARIABLES
  cfg,          \* the plugin configuration and the client's requests (fixed)
  now,          \* the clock: what new Date() returns, in ms
  cache,        \* InMemoryCacheStorage.cache: a Map, in insertion order
  accessOrder,  \* InMemoryCacheStorage.accessOrder
  pending,      \* handlers and refreshes suspended at `await originalHandler`
  originCount,  \* origin invocations made so far, per cache key ("" = pass-through)
  wrappers,     \* the CachingWrapper objects returned to callers
  last,         \* what the latest operation did and returned
  firstStored,  \* per key: the entry the first call stored, until disturbed
  invalidated,  \* per key: how it was last removed on request, no call since
  peer          \* the storage of a second plugin instance, when it has its own

vars == <<cfg, now, cache, accessOrder, pending, originCount, wrappers, last,
          firstStored, invalidated, peer>>

\* Instants at which the clock is read: construction time 0, the end of
\* each later time-to-live period, and the millisecond after the last of
\* them.
Instants ==
  { s * cfg.ttl * MsPerSec : s \in 0..MaxSec }
  \cup { MaxSec * cfg.ttl * MsPerSec + 1 }

(* --------------------------- key generator --------------------------- *)

\* Mutant: an input segment that serialises whatever it is given, undefined
\* included.
inputStrAlwaysSerialized(input) == JSONstringify(input)

\* defaultKeyGenerator: `${method}:${path}:${inputStr}`, the input segment
\* empty for undefined and for null.
inputStr(input) ==
  IF input = Undefined \/ input = Null THEN "" ELSE JSONstringify(input)

defaultKeyGenerator(method, path, input) ==
  method \o ":" \o path \o ":" \o inputStr(input)

\* The custom generator of the tests: (method, path) => `${method}:${path}`.
customKeyGenerator(method, path, input) == method \o ":" \o path

\* Mutant: the handler deriving its key from method and path alone whatever
\* the configuration says.
keyGeneratorIgnoresInput(method, path, input) ==
  customKeyGenerator(method, path, input)

\* Mutant: the handler deriving its key with the default generator whatever
\* the configuration says.
keyGeneratorIgnoresConfig(method, path, input) ==
  defaultKeyGenerator(method, path, input)

\* The generator the configuration selects.
keyGenerator(method, path, input) ==
  IF cfg.keyGenerator = "default"
  THEN defaultKeyGenerator(method, path, input)
  ELSE customKeyGenerator(method, path, input)

KeyOf(r) == keyGenerator(r.method, r.path, r.input)

\* Literal keys handed to invalidateKey: a derived key and one never stored.
LiteralKeys == {"GET:/a:", "GET:/zz:"}

AllKeys ==
  { defaultKeyGenerator(r.method, r.path, r.input) : r \in Requests }
  \cup { customKeyGenerator(r.method, r.path, r.input) : r \in Requests }
  \cup LiteralKeys

(* ----------------------- the Map inside the store -------------------- *)

\* A Map<string, CacheEntry> as its sequence of [key, value] pairs in
\* insertion order.
MapHas(m, key) == \E i \in 1..Len(m) : m[i].key = key

MapGet(m, key) == m[CHOOSE i \in 1..Len(m) : m[i].key = key].value

\* Mutant: a set that only replaces the value of a key still present, so a
\* write for a key removed meanwhile is lost.
MapSetOnlyPresent(m, key, value) ==
  IF MapHas(m, key)
  THEN [i \in 1..Len(m) |->
          IF m[i].key = key THEN [key |-> key, value |-> value] ELSE m[i]]
  ELSE m

\* Mutant: a set that keeps the value a present key already has.
MapSetKeepsFirst(m, key, value) ==
  IF MapHas(m, key) THEN m ELSE Append(m, [key |-> key, value |-> value])

MapSet(m, key, value) ==
  IF MapHas(m, key)
  THEN [i \in 1..Len(m) |->
          IF m[i].key = key THEN [key |-> key, value |-> value] ELSE m[i]]
  ELSE Append(m, [key |-> key, value |-> value])

MapDelete(m, key) == SelectSeq(m, LAMBDA e : e.key # key)

MapKeys(m) == { m[i].key : i \in 1..Len(m) }

\* accessOrder.filter(k => k !== key)
Without(order, key) == SelectSeq(order, LAMBDA k : k # key)

(* ------------------------ InMemoryCacheStorage ----------------------- *)

\* A storage state is [cache, accessOrder]; each operation returns the
\* state it leaves.
Store == [cache |-> cache, accessOrder |-> accessOrder]

\* A storage as its constructor leaves it: an empty Map, an empty array.
EmptyStorage == [cache |-> <<>>, accessOrder |-> <<>>]

\* Mutant: get() that drops an entry it finds expired.
StorageGetPurgesExpired(s, key) ==
  IF MapHas(s.cache, key)
  THEN IF now < MapGet(s.cache, key).expiresAt
       THEN [s EXCEPT !.accessOrder = Append(Without(s.accessOrder, key), key)]
       ELSE [cache |-> MapDelete(s.cache, key),
             accessOrder |-> Without(s.accessOrder, key)]
  ELSE s

\* Mutant: get() that moves a present key to the least-recently-used end
\* (unshift where the code pushes).
StorageGetDemote(s, key) ==
  IF MapHas(s.cache, key)
  THEN [s EXCEPT !.accessOrder = <<key>> \o Without(s.accessOrder, key)]
  ELSE s

\* get(key): a present key moves to the most-recently-used end.
StorageGet(s, key) ==
  IF MapHas(s.cache, key)
  THEN [s EXCEPT !.accessOrder = Append(Without(s.accessOrder, key), key)]
  ELSE s

\* Mutant: set() that evicts whenever the store is at capacity, the key
\* being present or not.
StorageSetEvictAlways(s, key, value) ==
  LET atCapacity == SizeAtLeast(Len(s.cache), cfg.maxSize)
      shifted == atCapacity /\ Len(s.accessOrder) > 0
      order1 == IF shifted THEN Tail(s.accessOrder) ELSE s.accessOrder
      cache1 == IF shifted /\ Head(s.accessOrder) # ""
                THEN MapDelete(s.cache, Head(s.accessOrder))
                ELSE s.cache
  IN [cache |-> MapSet(cache1, key, value),
      accessOrder |-> Append(Without(order1, key), key)]

\* Mutant: set() that pops the most-recently-used key instead of shifting
\* the least-recently-used one.
StorageSetEvictNewest(s, key, value) ==
  LET atCapacity == SizeAtLeast(Len(s.cache), cfg.maxSize)
                      /\ ~MapHas(s.cache, key)
      n == Len(s.accessOrder)
      popped == atCapacity /\ n > 0
      order1 == IF popped THEN SubSeq(s.accessOrder, 1, n - 1)
                ELSE s.accessOrder
      cache1 == IF popped /\ s.accessOrder[n] # ""
                THEN MapDelete(s.cache, s.accessOrder[n])
                ELSE s.cache
  IN [cache |-> MapSet(cache1, key, value),
      accessOrder |-> Append(Without(order1, key), key)]

\* set(key, value).  `if (oldestKey)` is false for the undefined that shift()
\* returns on an empty array and for the empty string.
StorageSet(s, key, value) ==
  LET atCapacity == SizeAtLeast(Len(s.cache), cfg.maxSize)
                      /\ ~MapHas(s.cache, key)
      shifted == atCapacity /\ Len(s.accessOrder) > 0
      order1 == IF shifted THEN Tail(s.accessOrder) ELSE s.accessOrder
      cache1 == IF shifted /\ Head(s.accessOrder) # ""
                THEN MapDelete(s.cache, Head(s.accessOrder))
                ELSE s.cache
  IN [cache |-> MapSet(cache1, key, value),
      accessOrder |-> Append(Without(order1, key), key)]

\* Mutant: delete() that leaves the key's access-order position behind.
StorageDeleteCacheOnly(s, key) ==
  [s EXCEPT !.cache = MapDelete(s.cache, key)]

\* Mutant: delete() that only forgets the access-order position.
StorageDeleteOrderOnly(s, key) ==
  [s EXCEPT !.accessOrder = Without(s.accessOrder, key)]

\* Mutant: delete() that removes the key's position with
\* accessOrder.splice(accessOrder.indexOf(key), 1): for an absent key
\* indexOf is -1 and splice removes the last position.
StorageDeleteSplice(s, key) ==
  [cache |-> MapDelete(s.cache, key),
   accessOrder |->
     IF \E i \in 1..Len(s.accessOrder) : s.accessOrder[i] = key
     THEN Without(s.accessOrder, key)
     ELSE SubSeq(s.accessOrder, 1, Len(s.accessOrder) - 1)]

\* delete(key)
StorageDelete(s, key) ==
  [cache |-> MapDelete(s.cache, key),
   accessOrder |-> Without(s.accessOrder, key)]

\* Mutant: clear() that resets the access order and keeps the map.
StorageClearOrderOnly(s) == [s EXCEPT !.accessOrder = <<>>]

\* clear()
StorageClear(s) == [cache |-> <<>>, accessOrder |-> <<>>]

\* keys()
StorageKeys(s) == [i \in 1..Len(s.cache) |-> s.cache[i].key]

(* ------------------------------ wrapper ------------------------------ *)

\* Mutant: a wrapper whose closures have lost the input of the call.
createWrapperWithoutInput(data, cachedAt, expiresAt, cacheKey, req) ==
  [data |-> data, cachedAt |-> cachedAt, expiresAt |-> expiresAt,
   cacheKey |-> cacheKey, req |-> [req EXCEPT !.input = Undefined]]

\* createWrapper(data, cachedAt, expiresAt): the three values are copied;
\* refresh and invalidate close over cacheKey, input and context.
createWrapper(data, cachedAt, expiresAt, cacheKey, req) ==
  [data |-> data, cachedAt |-> cachedAt, expiresAt |-> expiresAt,
   cacheKey |-> cacheKey, req |-> req]

NoWrapper == createWrapper(0, 0 - 1, 0 - 1, "", NoReq)

\* Mutant: a staleness test that already fires at the expiry instant.
isStaleAtExpiry(w) == now >= w.expiresAt

\* get isStale() { return new Date() > expiresAt; }
isStale(w) == now > w.expiresAt

(* ------------------------------ handler ------------------------------ *)

\* Mutant: every method is treated as cacheable.
CacheableAlways(method) == TRUE

\* methods.includes(context.method)
Cacheable(method) == method \in cfg.methods

\* Mutant: the lookup accepts an entry whatever its age.
IsLiveForever(cached, t) == TRUE

\* Mutant: the lookup comparison inverted.
IsLiveInverted(cached, t) == t > cached.expiresAt

\* The lookup's freshness test: `now < cached.expiresAt`.
IsLive(cached, t) == t < cached.expiresAt

\* `cached && now < cached.expiresAt` for the entry storage.get returned.
LookupHit(s, key) == MapHas(s.cache, key) /\ IsLive(MapGet(s.cache, key), now)

\* Mutant: the expiry computed without converting seconds to milliseconds
\* and without the ttl.
ExpiresAtSame(cachedAt) == cachedAt

\* new Date(cachedAt.getTime() + ttl * 1000)
ExpiresAt(cachedAt) == cachedAt + cfg.ttl * MsPerSec

\* The handler's `const cachedAt = new Date()`, taken after the origin
\* operation has returned.
NewCachedAt == now

\* Mutant: refresh stamping its write with the epoch, new Date(0).
RefreshCachedAtEpoch == 0 * MsPerSec

\* refresh's `const newCachedAt = new Date()`, taken after the origin
\* operation has returned.
RefreshCachedAt == now

\* The entry a completed fetch or refresh writes.
NewEntry(data, cachedAt) ==
  [data |-> data, cachedAt |-> cachedAt, expiresAt |-> ExpiresAt(cachedAt)]

(* ---------------------- invocations and results ---------------------- *)

\* Pass-through invocations are counted under the empty key.
OriginTargets == AllKeys \cup {""}

RECURSIVE SumOver(_, _)
SumOver(f, S) ==
  IF S = {} THEN 0
  ELSE LET x == CHOOSE y \in S : TRUE IN f[x] + SumOver(f, S \ {x})

\* Number of origin invocations made so far.
OriginTotal == SumOver(originCount, OriginTargets)

\* The removal mark of a key once an in-flight fetch or refresh has written
\* the key again: wrapper.invalidate(), clear(), invalidate(), invalidateKey(),
\* a failed fetch, a failed refresh.
Rewritten(mark) ==
  CASE mark = "invalidated" -> "rewritten"
    [] mark = "cleared" -> "refilled"
    [] mark = "removed" -> "restored"
    [] mark = "keyRemoved" -> "keyRestored"
    [] mark = "failed" -> "failedRewritten"
    [] mark = "refreshFailed" -> "refreshFailedRewritten"
    [] OTHER -> mark

\* The mark of a key whose fetch or refresh has just failed; `written` says
\* that another fetch or refresh has stored a live entry for it meanwhile.
Failed(kind, written) ==
  CASE kind = "fetch" /\ ~written -> "failed"
    [] kind = "fetch" /\ written -> "failedRewritten"
    [] kind = "refresh" /\ ~written -> "refreshFailed"
    [] OTHER -> "refreshFailedRewritten"

NoFirst == [set |-> FALSE, data |-> 0, cachedAt |-> 0, expiresAt |-> 0,
            base |-> 0, solo |-> FALSE, req |-> NoReq]

\* What a settled call or refresh handed to its caller: a wrapper, the raw
\* result of the origin operation, or its failure.
Returned(outcome, wrapper, raw) ==
  [outcome |-> outcome, wrapper |-> wrapper, raw |-> raw]

Init ==
  /\ cfg \in Configs
  /\ now = 0
  /\ cache = <<>>
  /\ accessOrder = <<>>
  /\ pending = {}
  /\ originCount = [k \in OriginTargets |-> 0]
  /\ wrappers = {}
  /\ last = Returned("none", NoWrapper, 0)
  /\ firstStored = [k \in AllKeys |-> NoFirst]
  /\ invalidated = [k \in AllKeys |-> "no"]
  /\ peer = EmptyStorage

\* The clock moves on to a later instant.
Tick ==
  /\ \E t \in Instants : t > now /\ now' = t
  /\ UNCHANGED <<cfg, peer, cache, accessOrder, pending, originCount, wrappers,
                 last, firstStored, invalidated>>

\* originalHandler(input, context) is invoked: the invocation is counted and
\* the caller is suspended until it settles.  The origin's result is the
\* number of the invocation, so every fetch yields different data.
Invoke(kind, req, cacheKey, on) ==
  /\ OriginTotal < MaxOrigin
  /\ originCount' = [originCount EXCEPT ![cacheKey] = @ + 1]
  /\ pending' = pending \cup
       { [id |-> OriginTotal + 1, kind |-> kind, req |-> req,
          cacheKey |-> cacheKey, on |-> on, base |-> originCount[cacheKey]] }

\* The wrapped handler up to its first suspension (or its return on a hit).
Call(r) ==
  IF ~Cacheable(r.method)
  THEN
    /\ Invoke("raw", r, "", NoWrapper)
    /\ UNCHANGED <<cfg, peer, now, cache, accessOrder, wrappers, last,
                   firstStored, invalidated>>
  ELSE
    LET cacheKey == KeyOf(r)
        s == StorageGet(Store, cacheKey)
    IN /\ cache' = s.cache
       /\ accessOrder' = s.accessOrder
       /\ invalidated' = [invalidated EXCEPT ![cacheKey] = "no"]
       /\ IF LookupHit(s, cacheKey)
          THEN LET cached == MapGet(s.cache, cacheKey)
                   w == createWrapper(cached.data, cached.cachedAt,
                                      cached.expiresAt, cacheKey, r)
               IN /\ wrappers' = wrappers \cup {w}
                  /\ last' = Returned("hit", w, 0)
                  /\ UNCHANGED <<pending, originCount>>
          ELSE /\ Invoke("fetch", r, cacheKey, NoWrapper)
               /\ UNCHANGED <<wrappers, last>>
       /\ UNCHANGED <<cfg, peer, now, firstStored>>

\* The origin operation of a suspended handler or refresh returns: a
\* pass-through hands the raw result on; a fetch or a refresh stamps the
\* result, writes the entry and returns a new wrapper.
Resolve(p) ==
  /\ p \in pending
  /\ pending' = pending \ {p}
  /\ IF p.kind = "raw"
     THEN /\ last' = Returned("raw", NoWrapper, p.id)
          /\ UNCHANGED <<cache, accessOrder, wrappers, firstStored,
                         invalidated>>
     ELSE LET entry == IF p.kind = "refresh"
                       THEN NewEntry(p.id, RefreshCachedAt)
                       ELSE NewEntry(p.id, NewCachedAt)
              s == StorageSet(Store, p.cacheKey, entry)
              w == createWrapper(p.id, entry.cachedAt, entry.expiresAt,
                                 p.cacheKey, p.req)
              gone == MapKeys(cache) \ MapKeys(s.cache)
              others == { q \in pending \ {p} : q.cacheKey = p.cacheKey }
              old == firstStored[p.cacheKey]
              first == IF p.kind = "fetch"
                          /\ (~old.set \/ now >= old.expiresAt)
                       THEN [set |-> TRUE, data |-> entry.data,
                             cachedAt |-> entry.cachedAt,
                             expiresAt |-> entry.expiresAt,
                             base |-> p.base,
                             solo |-> others = {}
                               /\ originCount[p.cacheKey] = p.base + 1,
                             req |-> p.req]
                       ELSE old
          IN /\ cache' = s.cache
             /\ accessOrder' = s.accessOrder
             /\ wrappers' = wrappers \cup {w}
             /\ last' = Returned(p.kind, w, 0)
             /\ firstStored' =
                  [k \in AllKeys |->
                     IF k = p.cacheKey THEN first
                     ELSE IF k \in gone THEN NoFirst
                     ELSE firstStored[k]]
             /\ invalidated' =
                  [invalidated EXCEPT ![p.cacheKey] = Rewritten(@)]
  /\ UNCHANGED <<cfg, peer, now, originCount>>

\* Mutant: a failure handled like a result, stamped and written.
RejectWritesEntry(p) == Resolve(p)

\* Mutant: a failure that is held back until every other suspended handler
\* and refresh has settled.
RejectAfterOthers(p) ==
  /\ p \in pending
  /\ pending = {p}
  /\ pending' = pending \ {p}
  /\ last' = Returned("error", NoWrapper, 0)
  /\ invalidated' =
       IF p.kind = "raw" THEN invalidated
       ELSE [invalidated EXCEPT ![p.cacheKey] =
               Failed(p.kind, LookupHit(Store, p.cacheKey))]
  /\ UNCHANGED <<cfg, peer, now, cache, accessOrder, originCount, wrappers,
                 firstStored>>

\* The origin operation fails: the rejection passes through the await and
\* nothing after it runs.
Reject(p) ==
  /\ p \in pending
  /\ pending' = pending \ {p}
  /\ last' = Returned("error", NoWrapper, 0)
  /\ invalidated' =
       IF p.kind = "raw" THEN invalidated
       ELSE [invalidated EXCEPT ![p.cacheKey] =
               Failed(p.kind, LookupHit(Store, p.cacheKey))]
  /\ UNCHANGED <<cfg, peer, now, cache, accessOrder, originCount, wrappers,
                 firstStored>>

\* Mutant: refresh() that leaves the entry in place while it fetches.
RefreshKeepsEntry(w) ==
  /\ w \in wrappers
  /\ Invoke("refresh", w.req, w.cacheKey, w)
  /\ UNCHANGED <<cfg, peer, now, cache, accessOrder, wrappers, last,
                 firstStored, invalidated>>

\* wrapper.refresh() up to its suspension: delete, then invoke the origin.
Refresh(w) ==
  /\ w \in wrappers
  /\ LET s == StorageDelete(Store, w.cacheKey)
     IN /\ cache' = s.cache
        /\ accessOrder' = s.accessOrder
  /\ Invoke("refresh", w.req, w.cacheKey, w)
  /\ firstStored' = [firstStored EXCEPT ![w.cacheKey] = NoFirst]
  /\ UNCHANGED <<cfg, peer, now, wrappers, last, invalidated>>

\* Mutant: invalidate() that also marks the wrapper it was called on as
\* expired, overwriting its expiresAt.
InvalidateExpiresWrapper(w) ==
  /\ w \in wrappers
  /\ LET s == StorageDelete(Store, w.cacheKey)
     IN /\ cache' = s.cache
        /\ accessOrder' = s.accessOrder
  /\ firstStored' = [firstStored EXCEPT ![w.cacheKey] = NoFirst]
  /\ invalidated' = [invalidated EXCEPT ![w.cacheKey] = "invalidated"]
  /\ wrappers' = (wrappers \ {w}) \cup {[w EXCEPT !.expiresAt = w.cachedAt]}
  /\ UNCHANGED <<cfg, peer, now, pending, originCount, last>>

\* wrapper.invalidate()
Invalidate(w) ==
  /\ w \in wrappers
  /\ LET s == StorageDelete(Store, w.cacheKey)
     IN /\ cache' = s.cache
        /\ accessOrder' = s.accessOrder
  /\ firstStored' = [firstStored EXCEPT ![w.cacheKey] = NoFirst]
  /\ invalidated' = [invalidated EXCEPT ![w.cacheKey] = "invalidated"]
  /\ UNCHANGED <<cfg, peer, now, pending, originCount, wrappers, last>>

(* --------------------------- plugin methods -------------------------- *)

\* client.plugins.cache.clear()
PluginClear ==
  /\ LET s == StorageClear(Store)
     IN /\ cache' = s.cache
        /\ accessOrder' = s.accessOrder
  /\ firstStored' = [k \in AllKeys |-> NoFirst]
  /\ invalidated' = [k \in AllKeys |->
                       IF MapHas(cache, k) THEN "cleared" ELSE invalidated[k]]
  /\ UNCHANGED <<cfg, peer, now, pending, originCount, wrappers, last>>

\* client.plugins.cache.invalidateKey(key)
PluginInvalidateKey(key) ==
  /\ LET s == StorageDelete(Store, key)
     IN /\ cache' = s.cache
        /\ accessOrder' = s.accessOrder
  /\ firstStored' = [firstStored EXCEPT ![key] = NoFirst]
  /\ invalidated' = [invalidated EXCEPT ![key] =
                       IF MapHas(cache, key) THEN "keyRemoved" ELSE @]
  /\ UNCHANGED <<cfg, peer, now, pending, originCount, wrappers, last>>

\* client.plugins.cache.invalidate(method, path, input)
PluginInvalidate(r) ==
  /\ LET s == StorageDelete(Store, KeyOf(r))
     IN /\ cache' = s.cache
        /\ accessOrder' = s.accessOrder
  /\ firstStored' = [firstStored EXCEPT ![KeyOf(r)] = NoFirst]
  /\ invalidated' = [invalidated EXCEPT ![KeyOf(r)] =
                       IF MapHas(cache, KeyOf(r)) THEN "removed" ELSE @]
  /\ UNCHANGED <<cfg, peer, now, pending, originCount, wrappers, last>>

(* ---------------------------- specification -------------------------- *)

Next ==
  \/ Tick
  \/ \E r \in cfg.requests : Call(r)
  \/ \E p \in pending : Resolve(p)
  \/ \E p \in pending : Reject(p)
  \/ \E w \in wrappers : Refresh(w)
  \/ \E w \in wrappers : Invalidate(w)
  \/ PluginClear
  \/ \E key \in LiteralKeys : PluginInvalidateKey(key)
  \/ \E r \in cfg.requests : PluginInvalidate(r)

Spec == Init /\ [][Next]_vars

(* ------------------ a client that holds a wrapper ------------------- *)

\* The default plugin with a client of one GET endpoint, from the moment its
\* first call has completed: the call was made and answered at instant 0,
\* its entry is stored and its wrapper is in the client's hands.  That
\* invocation is number 0; the MaxOrigin invocations followed come after it.
WarmConfig ==
  [ttl |-> 1, methods |-> {"GET"}, maxSize |-> Infinity,
   keyGenerator |-> "default", requests |-> OnlyGet]

WarmRequest == CHOOSE r \in OnlyGet : TRUE

WarmKey == defaultKeyGenerator(WarmRequest.method, WarmRequest.path,
                               WarmRequest.input)

WarmWrapper ==
  createWrapper(0, 0, 0 + WarmConfig.ttl * MsPerSec, WarmKey, WarmRequest)

InitWarm ==
  /\ cfg = WarmConfig
  /\ now = 0
  /\ cache = << [key |-> WarmKey,
                 value |-> [data |-> WarmWrapper.data,
                            cachedAt |-> WarmWrapper.cachedAt,
                            expiresAt |-> WarmWrapper.expiresAt]] >>
  /\ accessOrder = << WarmKey >>
  /\ pending = {}
  /\ originCount = [k \in OriginTargets |-> 0]
  /\ wrappers = {WarmWrapper}
  /\ last = Returned("fetch", WarmWrapper, 0)
  /\ firstStored =
       [k \in AllKeys |->
          IF k = WarmKey
          THEN [set |-> TRUE, data |-> WarmWrapper.data,
                cachedAt |-> WarmWrapper.cachedAt,
                expiresAt |-> WarmWrapper.expiresAt,
                base |-> 0 - 1, solo |-> TRUE, req |-> WarmRequest]
          ELSE NoFirst]
  /\ invalidated = [k \in AllKeys |-> "no"]
  /\ peer = EmptyStorage

SpecWarm == InitWarm /\ [][Next]_vars

(* --------- a client that holds a wrapper and calls two endpoints ------ *)

\* cache({ ttl: 1 }) and cache({ ttl: 1, maxSize: 1 }) with a client whose
\* GET endpoint takes an optional { id }, from the moment its first call,
\* without input, has completed as in InitWarm.  The call with { id: 1 }
\* has another key.
HeldConfigs ==
  { cachePlugin([ttl |-> 1, requests |-> OptionalId]),
    cachePlugin([ttl |-> 1, maxSize |-> Finite(1), requests |-> OptionalId]) }

InitHeld ==
  /\ cfg \in HeldConfigs
  /\ now = 0
  /\ cache = << [key |-> WarmKey,
                 value |-> [data |-> WarmWrapper.data,
                            cachedAt |-> WarmWrapper.cachedAt,
                            expiresAt |-> WarmWrapper.expiresAt]] >>
  /\ accessOrder = << WarmKey >>
  /\ pending = {}
  /\ originCount = [k \in OriginTargets |-> 0]
  /\ wrappers = {WarmWrapper}
  /\ last = Returned("fetch", WarmWrapper, 0)
  /\ firstStored =
       [k \in AllKeys |->
          IF k = WarmKey
          THEN [set |-> TRUE, data |-> WarmWrapper.data,
                cachedAt |-> WarmWrapper.cachedAt,
                expiresAt |-> WarmWrapper.expiresAt,
                base |-> 0 - 1, solo |-> TRUE, req |-> WarmRequest]
          ELSE NoFirst]
  /\ invalidated = [k \in AllKeys |-> "no"]
  /\ peer = EmptyStorage

SpecHeld == InitHeld /\ [][Next]_vars

(* ------------------- the storage class on its own ------------------- *)

\* InMemoryCacheStorage driven through its CacheStorage interface alone, as
\* the handler, refresh(), invalidate() and the plugin methods drive it:
\* get (lookup), set (a completed fetch), delete, clear, in any order.  The
\* class never reads the clock, so the clock stands still here.

\* Keys of the endpoint `/users/${id}`, one more than the largest store.
StoreKeys ==
  { defaultKeyGenerator("GET", "/users/" \o ToString(i), Undefined) :
      i \in 1..(MaxStore + 1) }

\* new InMemoryCacheStorage(maxSize)
StoreConfigs ==
  { [ttl |-> 1, methods |-> {"GET"}, maxSize |-> m,
     keyGenerator |-> "default", requests |-> {}] :
      m \in { Finite(n) : n \in 1..MaxStore } \cup {Infinity} }

\* Results of successive origin invocations, as entries.
StoreEntries == { NewEntry(d, NewCachedAt) : d \in 1..2 }

InitStore ==
  /\ cfg \in StoreConfigs
  /\ now = 0
  /\ cache = <<>>
  /\ accessOrder = <<>>
  /\ pending = {}
  /\ originCount = [k \in OriginTargets |-> 0]
  /\ wrappers = {}
  /\ last = Returned("none", NoWrapper, 0)
  /\ firstStored = [k \in AllKeys |-> NoFirst]
  /\ invalidated = [k \in AllKeys |-> "no"]
  /\ peer = EmptyStorage

StoreUnchanged ==
  UNCHANGED <<cfg, peer, now, pending, originCount, wrappers, last, firstStored,
              invalidated>>

StoreGet(key) ==
  /\ LET s == StorageGet(Store, key)
     IN /\ cache' = s.cache
        /\ accessOrder' = s.accessOrder
  /\ StoreUnchanged

StoreSet(key, value) ==
  /\ LET s == StorageSet(Store, key, value)
     IN /\ cache' = s.cache
        /\ accessOrder' = s.accessOrder
  /\ StoreUnchanged

StoreDelete(key) ==
  /\ LET s == StorageDelete(Store, key)
     IN /\ cache' = s.cache
        /\ accessOrder' = s.accessOrder
  /\ StoreUnchanged

StoreClear ==
  /\ LET s == StorageClear(Store)
     IN /\ cache' = s.cache
        /\ accessOrder' = s.accessOrder
  /\ StoreUnchanged

NextStore ==
  \/ \E key \in StoreKeys : StoreGet(key)
  \/ \E key \in StoreKeys : \E value \in StoreEntries : StoreSet(key, value)
  \/ \E key \in StoreKeys : StoreDelete(key)
  \/ StoreClear

SpecStore == InitStore /\ [][NextStore]_vars

(* -------------------- the key generator on its own ------------------- *)

\* The key the handler derives (line 274) for calls of any verb, path and
\* input to a plugin built without a keyGenerator.  No call is carried
\* through: the store, the clock and the origin are left alone, and `last`
\* holds the request and the key derived for it.
KeyMethods == {"GET", "POST", "PUT", "PATCH", "DELETE"}

KeyPaths == {"/data", "/a", "/users/1", "/users/2", "/"}

KeyInputs == {Undefined, Null, Obj1, EmptyString, False}

KeyRequests ==
  { [method |-> m, path |-> p, input |-> i] :
      m \in KeyMethods, p \in KeyPaths, i \in KeyInputs }

KeyConfig == cachePlugin([requests |-> KeyRequests])

InitKey ==
  /\ cfg = KeyConfig
  /\ now = 0
  /\ cache = <<>>
  /\ accessOrder = <<>>
  /\ pending = {}
  /\ originCount = [k \in OriginTargets |-> 0]
  /\ wrappers = {}
  /\ last = Returned("none", NoWrapper, 0)
  /\ firstStored = [k \in AllKeys |-> NoFirst]
  /\ invalidated = [k \in AllKeys |-> "no"]
  /\ peer = EmptyStorage

\* const cacheKey = keyGenerator(context.method, context.path, input)
DeriveKey(r) ==
  /\ last' = Returned("key",
                      createWrapper(0, 0 - 1, 0 - 1,
                                    keyGenerator(r.method, r.path, r.input),
                                    r),
                      0)
  /\ UNCHANGED <<cfg, peer, now, cache, accessOrder, pending, originCount,
                 wrappers, firstStored, invalidated>>

NextKey == \E r \in cfg.requests : DeriveKey(r)

SpecKey == InitKey /\ [][NextKey]_vars

\* The storage class driven with any string as a key, the empty string
\* included (a custom keyGenerator may return it).
AnyKeys == StoreKeys \cup {""}

NextStoreAnyKey ==
  \/ \E key \in AnyKeys : StoreGet(key)
  \/ \E key \in AnyKeys : \E value \in StoreEntries : StoreSet(key, value)
  \/ \E key \in AnyKeys : StoreDelete(key)
  \/ StoreClear

SpecStoreAnyKey == InitStore /\ [][NextStoreAnyKey]_vars

\* The storage class driven while the clock moves on, so that it comes to
\* hold entries written at different instants, expired ones and live ones:
\* set stores the entry a fetch completing now would write.
StoreSetNow(key) == StoreSet(key, NewEntry(1, NewCachedAt))

NextStoreClock ==
  \/ Tick
  \/ \E key \in StoreKeys : StoreGet(key)
  \/ \E key \in StoreKeys : StoreSetNow(key)
  \/ \E key \in StoreKeys : StoreDelete(key)
  \/ StoreClear

SpecStoreClock == InitStore /\ [][NextStoreClock]_vars

\* What one completed call does to the storage: get, and unless the lookup
\* is a live hit, set of the fetched entry.
CallOn(s, key, value) ==
  LET g == StorageGet(s, key)
  IN IF LookupHit(g, key) THEN g ELSE StorageSet(g, key, value)

\* Calls for the keys ks[1], ks[2], ... made one after the other, each
\* completed before the next starts.
RECURSIVE CallsInSequence(_, _, _)
CallsInSequence(s, ks, value) ==
  IF ks = <<>> THEN s
  ELSE CallsInSequence(CallOn(s, Head(ks), value), Tail(ks), value)

(* ------------------------ two plugin instances ----------------------- *)

\* cache(config) is called once for each client, and every call evaluates
\* the default of the storage option anew.  Two instances hold the same
\* storage object only when their callers passed the same object; the
\* objects two `new` expressions construct are never the same.
\* Mutant: the default storage is one object of the module, shared by all
\* the instances that take the default.
SameStorageModuleLevel(c1, c2) == c1.storage = c2.storage

SameStorage(c1, c2) == c1.storage # NewStorage /\ c1.storage = c2.storage

\* A second client is built with a second call cache(config) with the same
\* options.  Its storage is the first instance's object when the two are
\* the same object, and the object `peer` otherwise.
PeerConfig == cfg

Shared == SameStorage(cfg, PeerConfig)

PeerStore == IF Shared THEN Store ELSE peer

\* The second instance's storage is left in state s.
PeerWrite(s) ==
  IF Shared
  THEN /\ cache' = s.cache
       /\ accessOrder' = s.accessOrder
       /\ peer' = peer
  ELSE /\ peer' = s
       /\ UNCHANGED <<cache, accessOrder>>

\* What the second client does leaves the first one's clock, suspended
\* handlers, wrappers and history alone.
PeerUnchanged ==
  UNCHANGED <<cfg, now, pending, originCount, wrappers, last, firstStored,
              invalidated>>

\* A call of the second client, completed at once; its origin answers 0.
PeerCall(r) ==
  /\ Cacheable(r.method)
  /\ PeerWrite(CallOn(PeerStore, KeyOf(r), NewEntry(0, NewCachedAt)))
  /\ PeerUnchanged

\* refresh() of a wrapper the second client holds for an entry it finds in
\* its storage, completed at once: delete, then set of the new entry.
PeerRefresh(r) ==
  /\ MapHas(PeerStore.cache, KeyOf(r))
  /\ PeerWrite(StorageSet(StorageDelete(PeerStore, KeyOf(r)), KeyOf(r),
                          NewEntry(0, RefreshCachedAt)))
  /\ PeerUnchanged

\* invalidate() of a wrapper the second client holds.
PeerInvalidate(r) ==
  /\ MapHas(PeerStore.cache, KeyOf(r))
  /\ PeerWrite(StorageDelete(PeerStore, KeyOf(r)))
  /\ PeerUnchanged

\* Two clients with cache({ ttl: 1 }) each, and two clients with
\* cache({ ttl: 1, storage: customStorage }) each, customStorage being one
\* object of the caller that keeps its entries as the default storage does
\* without a bound.
PairConfigs ==
  { cachePlugin([ttl |-> 1, requests |-> OnlyGet]),
    cachePlugin([ttl |-> 1, storage |-> "customStorage",
                 requests |-> OnlyGet]) }

InitPair ==
  /\ cfg \in PairConfigs
  /\ now = 0
  /\ cache = <<>>
  /\ accessOrder = <<>>
  /\ pending = {}
  /\ originCount = [k \in OriginTargets |-> 0]
  /\ wrappers = {}
  /\ last = Returned("none", NoWrapper, 0)
  /\ firstStored = [k \in AllKeys |-> NoFirst]
  /\ invalidated = [k \in AllKeys |-> "no"]
  /\ peer = EmptyStorage

PeerStep ==
  \/ \E r \in cfg.requests : PeerCall(r)
  \/ \E r \in cfg.requests : PeerRefresh(r)
  \/ \E r \in cfg.requests : PeerInvalidate(r)

NextPair ==
  \/ Next
  \/ \E r \in cfg.requests : PeerCall(r)
  \/ \E r \in cfg.requests : PeerRefresh(r)
  \/ \E r \in cfg.requests : PeerInvalidate(r)

SpecPair == InitPair /\ [][NextPair]_vars

(* ------------------------------ typing ------------------------------- *)

TypeOK ==
  /\ cfg \in Configs \cup StoreConfigs \cup PairConfigs \cup HeldConfigs
            \cup {WarmConfig, KeyConfig}
  /\ now \in Instants
  /\ OriginTotal <= MaxOrigin
  /\ \A p \in pending : p.id \in 1..OriginTotal
  /\ MapKeys(cache) \subseteq AllKeys \cup AnyKeys
  /\ MapKeys(peer.cache) \subseteq AllKeys

(* ------------------------------ claims ------------------------------- *)

\* The stored entry for a key, as the wrapper a call by request r gets.
WrapperOver(entry, key, r) ==
  createWrapper(entry.data, entry.cachedAt, entry.expiresAt, key, r)

\* The handlers and refreshes a step has newly suspended.
Started == pending' \ pending

\* C1 as stated: once a call has stored an entry for a key, every further
\* call for that key made before that entry expires, with no invalidate,
\* clear, refresh or eviction of the key in between, returns a wrapper with
\* the data and cachedAt of the first call, and the origin operation has been
\* invoked exactly once in total.
C1_AsStated ==
  [][\A r \in Requests :
       LET k == KeyOf(r)
           f == firstStored[k]
       IN (Cacheable(r.method) /\ f.set /\ now < f.expiresAt /\ Call(r))
          => /\ originCount' = originCount
             /\ originCount[k] - f.base = 1
             /\ last'.outcome = "hit"
             /\ last'.wrapper.data = f.data
             /\ last'.wrapper.cachedAt = f.cachedAt]_vars

\* C1 amended: the same, provided no other origin invocation for the key
\* was started or in flight between the first call's lookup and its write.
C1_RepeatedCallsHit ==
  [][\A r \in Requests :
       LET k == KeyOf(r)
           f == firstStored[k]
       IN (Cacheable(r.method) /\ f.set /\ f.solo
             /\ now < f.expiresAt /\ Call(r))
          => /\ originCount' = originCount
             /\ originCount[k] - f.base = 1
             /\ last'.outcome = "hit"
             /\ last'.wrapper.data = f.data
             /\ last'.wrapper.cachedAt = f.cachedAt]_vars

\* C1 witness: a later instant within the TTL at which a repeated call has
\* just been served the first call's entry, the origin invoked once.
C1_Witness ==
  \E k \in AllKeys :
    /\ firstStored[k].set /\ firstStored[k].solo
    /\ last.outcome = "hit"
    /\ last.wrapper.cacheKey = k
    /\ last.wrapper.data = firstStored[k].data
    /\ last.wrapper.cachedAt = firstStored[k].cachedAt
    /\ originCount[k] = 1
    /\ now < firstStored[k].expiresAt

\* C2: a cacheable call made strictly after the stored entry's expiresAt
\* invokes the origin operation exactly once and returns nothing before it
\* settles; when the fetch succeeds the entry stored under the key is
\* replaced by one whose data is the new result and whose cachedAt is the
\* time of the write, and the call returns a wrapper over it.
C2_ExpiredCallRefetches ==
  [][/\ \A r \in Requests :
          LET k == KeyOf(r) IN
          (Cacheable(r.method) /\ MapHas(cache, k)
             /\ now > MapGet(cache, k).expiresAt /\ Call(r))
          => /\ OriginTotal' = OriginTotal + 1
             /\ originCount'[k] = originCount[k] + 1
             /\ Cardinality(Started) = 1
             /\ \A p \in Started : p.kind = "fetch" /\ p.cacheKey = k
                                    /\ p.req = r
             /\ last' = last /\ wrappers' = wrappers
     /\ \A p \in pending :
          (p.kind = "fetch" /\ Resolve(p))
          => /\ MapHas(cache', p.cacheKey)
             /\ MapGet(cache', p.cacheKey) =
                  [data |-> p.id, cachedAt |-> now,
                   expiresAt |-> now + cfg.ttl * MsPerSec]
             /\ last' = Returned("fetch",
                          WrapperOver(MapGet(cache', p.cacheKey), p.cacheKey,
                                      p.req), 0)
             /\ originCount' = originCount]_vars

\* C2 witness: call, call within the TTL, call after the TTL: the third call
\* has returned the second result, stamped now, and the origin has been
\* invoked twice.
C2_Witness ==
  \E k \in AllKeys :
    /\ originCount[k] = 2 /\ OriginTotal = 2 /\ pending = {}
    /\ last.outcome = "fetch" /\ last.wrapper.cacheKey = k
    /\ last.wrapper.data = 2 /\ last.wrapper.cachedAt = now
    /\ MapGet(cache, k).data = 2
    /\ \E w \in wrappers : w.cacheKey = k /\ w.data = 1 /\ w.expiresAt < now

\* C3 as stated: a cacheable call made at the instant now = expiresAt of the
\* stored entry is a live hit: it returns a wrapper over the stored entry and
\* does not invoke the origin operation.
C3_HitAtExpiryInstant ==
  [][\A r \in Requests :
       LET k == KeyOf(r) IN
       (Cacheable(r.method) /\ MapHas(cache, k)
          /\ now = MapGet(cache, k).expiresAt /\ Call(r))
       => /\ originCount' = originCount
          /\ last' = Returned("hit", WrapperOver(MapGet(cache, k), k, r), 0)]_vars

\* C4: at every instant and for every wrapper, isStale is (now > expiresAt):
\* false up to and including expiresAt, true after it; the wrapper persists
\* unchanged, and once isStale is true it stays true as the clock advances.
C4_IsStale ==
  [][/\ \A w \in wrappers' : (isStale(w))' <=> (now' > w.expiresAt)
     /\ wrappers \subseteq wrappers'
     /\ \A w \in wrappers : isStale(w) => (isStale(w))']_vars

\* C4 witness: a wrapper whose entry is still stored untouched has turned
\* stale by the clock alone.
C4_Witness ==
  \E w \in wrappers :
    /\ now > w.expiresAt /\ isStale(w)
    /\ MapHas(cache, w.cacheKey)
    /\ MapGet(cache, w.cacheKey).data = w.data
    /\ OriginTotal = 1 /\ pending = {}

\* C5: a call whose verb is not in the configured cacheable set invokes the
\* origin operation, leaves cache and access order exactly as they were, and
\* when the origin returns hands its raw result on, not a wrapper, again with
\* the store unchanged.
C5_NonCacheableBypasses ==
  [][/\ \A r \in Requests :
          (r.method \notin cfg.methods /\ Call(r))
          => /\ cache' = cache /\ accessOrder' = accessOrder
             /\ OriginTotal' = OriginTotal + 1
             /\ Cardinality(Started) = 1
             /\ \A p \in Started : p.kind = "raw" /\ p.req = r
     /\ \A p \in pending :
          (p.req.method \notin cfg.methods /\ Resolve(p))
          => /\ last' = Returned("raw", NoWrapper, p.id)
             /\ cache' = cache /\ accessOrder' = accessOrder
             /\ wrappers' = wrappers]_vars

\* C5 witness: two POST calls under the default configuration have both
\* reached the origin and returned raw results; nothing is stored.
C5_Witness ==
  /\ cfg.methods = {"GET"}
  /\ originCount[""] = 2 /\ pending = {}
  /\ last = Returned("raw", NoWrapper, 2)
  /\ cache = <<>> /\ wrappers = {}

C7_RefreshRefetches ==
  [][/\ \A w \in wrappers :
          Refresh(w)
          => /\ OriginTotal' = OriginTotal + 1
             /\ originCount'[w.cacheKey] = originCount[w.cacheKey] + 1
             /\ Cardinality(Started) = 1
             /\ \A p \in Started : p.kind = "refresh" /\ p.req = w.req
                                    /\ p.cacheKey = w.cacheKey
     /\ \A p \in pending :
          (p.kind = "refresh" /\ Resolve(p))
          => LET fresh == [data |-> p.id, cachedAt |-> now,
                           expiresAt |-> now + cfg.ttl * MsPerSec]
             IN /\ MapHas(cache', p.cacheKey)
                /\ MapGet(cache', p.cacheKey) = fresh
                /\ last' = Returned("refresh",
                             WrapperOver(fresh, p.cacheKey, p.req), 0)
                /\ last'.wrapper.data # p.on.data
                /\ originCount' = originCount]_vars

\* C7 witness: a refresh made while the entry was live has returned the
\* second result and the store holds it.
C7_Witness ==
  \E w \in wrappers :
    /\ last.outcome = "refresh" /\ last.wrapper.cacheKey = w.cacheKey
    /\ w.data = 1 /\ last.wrapper.data = 2
    /\ now < w.expiresAt
    /\ originCount[w.cacheKey] = 2
    /\ MapGet(cache, w.cacheKey).data = 2

\* C8 as stated: the wrapper returned by refresh() has a cachedAt strictly
\* greater than the cachedAt of the wrapper refresh() was called on.
C8_AsStated ==
  [][\A p \in pending :
       (p.kind = "refresh" /\ Resolve(p))
       => last'.wrapper.cachedAt > p.on.cachedAt]_vars

\* C8 amended: with a clock that does not go backwards, the wrapper returned
\* by refresh() has a cachedAt greater than or equal to the cachedAt of the
\* wrapper refresh() was called on (equal when the refresh completes within
\* the millisecond in which that wrapper's entry was written).
C8_RefreshCachedAtNotEarlier ==
  [][\A p \in pending :
       (p.kind = "refresh" /\ Resolve(p))
       => /\ last'.outcome = "refresh"
          /\ last'.wrapper.cachedAt >= p.on.cachedAt]_vars

\* C8 witness: a refresh has returned a wrapper with a later cachedAt than
\* the wrapper it was called on.
C8_Witness ==
  \E w \in wrappers :
    /\ last.outcome = "refresh" /\ last.wrapper.cacheKey = w.cacheKey
    /\ w.data = 1 /\ last.wrapper.data = 2
    /\ last.wrapper.cachedAt > w.cachedAt

\* C9: with maxSize = N and the store holding N entries, set of a key that
\* is not present removes exactly the key at the least-recently-used end of
\* the access order and no other, keeps every other entry as it was, and
\* inserts the new key; afterwards a lookup of the evicted key misses and a
\* lookup of the inserted key hits.
C9_EvictsLeastRecentlyUsed ==
  [][\A key \in StoreKeys : \A value \in StoreEntries :
       (StoreSet(key, value) /\ ~MapHas(cache, key) /\ ~cfg.maxSize.inf
          /\ Len(cache) = cfg.maxSize.n)
       => \A lru \in {Head(accessOrder)} :
          /\ lru \in MapKeys(cache)
          /\ MapKeys(cache') = (MapKeys(cache) \ {lru}) \cup {key}
          /\ Len(cache') = Len(cache)
          /\ \A k \in MapKeys(cache) \ {lru} :
               MapGet(cache', k) = MapGet(cache, k)
          /\ MapGet(cache', key) = value
          /\ ~(LookupHit(Store, lru))'
          /\ (LookupHit(Store, key))']_vars

\* C9 witness: maxSize = 2 and the keys of /users/1, /users/2, /users/3: the
\* store is full with /users/2 and /users/3 in that order and /users/1 is
\* not stored.
C9_Witness ==
  /\ cfg.maxSize = Finite(2)
  /\ StorageKeys(Store) = << "GET:/users/2:", "GET:/users/3:" >>
  /\ accessOrder = << "GET:/users/2:", "GET:/users/3:" >>
  /\ ~MapHas(cache, "GET:/users/1:")

\* C10: get of a stored key moves it to the most-recently-used end and
\* changes nothing else; when other keys are stored too, an insertion into
\* the store that follows evicts the oldest of the other keys and keeps the
\* key that was read.
C10_HitPromotes ==
  [][\A key \in StoreKeys :
       (StoreGet(key) /\ MapHas(cache, key))
       => /\ accessOrder' = Append(Without(accessOrder, key), key)
          /\ cache' = cache
          /\ (Len(cache) >= 2 /\ SizeAtLeast(Len(cache), cfg.maxSize))
             => \A k2 \in StoreKeys \ MapKeys(cache) :
                  \A value \in StoreEntries :
                    LET t == (StorageSet(Store, k2, value))' IN
                    /\ MapKeys(cache) \ MapKeys(t.cache) =
                         {Head(Without(accessOrder, key))}
                    /\ MapHas(t.cache, key)]_vars

\* C10 witness: a full store of two keys whose first-inserted key is at the
\* most-recently-used end.
C10_Witness ==
  /\ cfg.maxSize = Finite(2)
  /\ StorageKeys(Store) = << "GET:/users/1:", "GET:/users/2:" >>
  /\ accessOrder = << "GET:/users/2:", "GET:/users/1:" >>

\* C11 as stated: for every configured maxSize, in every state reached by
\* calls, refreshes, invalidations and clears, the default store holds at
\* most maxSize entries.
C11_NeverMoreThanMaxSize ==
  (~cfg.maxSize.inf) => Len(cache) <= cfg.maxSize.n

\* Sequences of m distinct keys.
DistinctKeySeqs(m) ==
  { ks \in [1..m -> StoreKeys] : \A i, j \in 1..m : ks[i] = ks[j] => i = j }

\* The last n elements of a sequence.
LastN(ks, n) == SubSeq(ks, Len(ks) - n + 1, Len(ks))

C13_SameKeySharesSlot ==
  [][\A r1, r2 \in Requests :
       LET f == firstStored[KeyOf(r1)] IN
       (/\ cfg.keyGenerator = "custom"
        /\ r1.method = r2.method /\ r1.path = r2.path
        /\ r1.input # r2.input
        /\ f.set /\ f.solo /\ f.req = r1 /\ now < f.expiresAt
        /\ Call(r2) /\ Cacheable(r2.method))
       => /\ KeyOf(r2) = KeyOf(r1)
          /\ originCount' = originCount
          /\ originCount[KeyOf(r1)] = f.base + 1
          /\ last'.outcome = "hit"
          /\ last'.wrapper.req = r2
          /\ last'.wrapper.data = f.data
          /\ last'.wrapper.cachedAt = f.cachedAt]_vars

\* C13 witness: a call with one input has been served the entry that a call
\* with another input stored; the origin has been invoked once.
C13_Witness ==
  \E k \in AllKeys :
    /\ cfg.keyGenerator = "custom"
    /\ firstStored[k].set
    /\ last.outcome = "hit" /\ last.wrapper.cacheKey = k
    /\ last.wrapper.req.input # firstStored[k].req.input
    /\ last.wrapper.data = firstStored[k].data
    /\ last.wrapper.cachedAt = firstStored[k].cachedAt
    /\ OriginTotal = 1 /\ pending = {}

IsMiss(r) ==
  /\ originCount' = [originCount EXCEPT ![KeyOf(r)] = @ + 1]
  /\ Cardinality(Started) = 1
  /\ \A p \in Started : p.kind = "fetch" /\ p.cacheKey = KeyOf(r) /\ p.req = r
  /\ last' = last

C18_AsStated ==
  [][/\ \A r \in Requests :
          (Cacheable(r.method) /\ Started # {} /\ Call(r))
          => cache' = cache
     /\ \A p \in pending :
          (p.kind = "fetch" /\ Reject(p))
          => /\ last' = Returned("error", NoWrapper, 0)
             /\ cache' = cache /\ accessOrder' = accessOrder
             /\ wrappers' = wrappers
             /\ originCount' = originCount /\ Started = {}
     /\ \A r \in Requests :
          (Cacheable(r.method)
             /\ invalidated[KeyOf(r)] \in {"failed", "failedRewritten"}
             /\ Call(r))
          => IsMiss(r)]_vars

\* C18 amended: the same, the next call for the key invoking the origin
\* again provided no other fetch or refresh for that key has written an
\* entry since the failed call's lookup.
C18_FailedFetchWritesNothing ==
  [][/\ \A r \in Requests :
          (Cacheable(r.method) /\ Started # {} /\ Call(r))
          => cache' = cache
     /\ \A p \in pending :
          (p.kind = "fetch" /\ Reject(p))
          => /\ last' = Returned("error", NoWrapper, 0)
             /\ cache' = cache /\ accessOrder' = accessOrder
             /\ wrappers' = wrappers
             /\ originCount' = originCount /\ Started = {}
     /\ \A r \in Requests :
          (Cacheable(r.method)
             /\ invalidated[KeyOf(r)] \in {"failed"} /\ Call(r))
          => IsMiss(r)]_vars

\* C18 witness: a call found its entry expired, its origin invocation has
\* failed, and the expired entry is still the one stored.
C18_Witness ==
  \E k \in AllKeys :
    /\ invalidated[k] = "failed"
    /\ last.outcome = "error"
    /\ MapHas(cache, k) /\ MapGet(cache, k).data = 1
    /\ MapGet(cache, k).expiresAt <= now
    /\ OriginTotal = 2 /\ pending = {}

\* C19 as stated: refresh() deletes the entry before it fetches; when the
\* origin invocation fails the failure goes to the caller, the entry is not
\* put back, and the next call for the key is a miss.
C19_AsStated ==
  [][/\ \A w \in wrappers :
          Refresh(w) => ~MapHas(cache', w.cacheKey)
     /\ \A p \in pending :
          (p.kind = "refresh" /\ Reject(p))
          => /\ last' = Returned("error", NoWrapper, 0)
             /\ cache' = cache /\ accessOrder' = accessOrder
             /\ wrappers' = wrappers
             /\ originCount' = originCount /\ Started = {}
     /\ \A r \in Requests :
          (Cacheable(r.method)
             /\ invalidated[KeyOf(r)] \in {"refreshFailed", "refreshFailedRewritten"}
             /\ Call(r))
          => IsMiss(r)]_vars

\* C19 amended: the same, the next call for the key being a miss provided
\* no other fetch or refresh for that key has written an entry since the
\* refresh deleted it.
C19_FailedRefreshLeavesKeyDeleted ==
  [][/\ \A w \in wrappers :
          Refresh(w) => ~MapHas(cache', w.cacheKey)
     /\ \A p \in pending :
          (p.kind = "refresh" /\ Reject(p))
          => /\ last' = Returned("error", NoWrapper, 0)
             /\ cache' = cache /\ accessOrder' = accessOrder
             /\ wrappers' = wrappers
             /\ originCount' = originCount /\ Started = {}
     /\ \A r \in Requests :
          (Cacheable(r.method)
             /\ invalidated[KeyOf(r)] \in {"refreshFailed"} /\ Call(r))
          => IsMiss(r)]_vars

\* C19 witness: a refresh made while the entry was within its TTL has
\* failed; the key is absent although the wrapper is not yet stale.
C19_Witness ==
  \E w \in wrappers :
    /\ invalidated[w.cacheKey] = "refreshFailed"
    /\ last.outcome = "error"
    /\ ~MapHas(cache, w.cacheKey)
    /\ now < w.expiresAt /\ ~isStale(w)
    /\ pending = {}

\* C20: a call for a key made while a fetch for that key is in flight and no
\* live entry is stored invokes the origin operation itself; every fetch
\* that completes writes its own entry over whatever is stored under the
\* key and returns it, so that once two overlapping fetches have completed
\* the store holds one entry for the key, that of the later completion.
C20_OverlappingCallsEachFetch ==
  [][/\ \A r \in Requests :
          (Cacheable(r.method)
             /\ ~LookupHit(Store, KeyOf(r))
             /\ \E q \in pending : q.kind = "fetch" /\ q.cacheKey = KeyOf(r)
             /\ Call(r))
          => IsMiss(r)
     /\ \A p \in pending :
          (p.kind = "fetch" /\ Resolve(p))
          => /\ Cardinality({ i \in 1..Len(cache') :
                               cache'[i].key = p.cacheKey }) = 1
             /\ MapGet(cache', p.cacheKey) =
                  [data |-> p.id, cachedAt |-> now,
                   expiresAt |-> now + cfg.ttl * MsPerSec]
             /\ last'.outcome = "fetch"
             /\ last'.wrapper.data = p.id
             /\ last'.wrapper.cacheKey = p.cacheKey]_vars

\* C20 witness: two calls for one key overlapped; the fetch started second
\* completed first, the fetch started first completed last, and the store
\* holds the single entry the first-started fetch wrote.
C20_Witness ==
  \E k \in AllKeys :
    /\ originCount[k] = 2 /\ OriginTotal = 2 /\ pending = {}
    /\ \E w \in wrappers : w.cacheKey = k /\ w.data = 2
    /\ last.outcome = "fetch" /\ last.wrapper.cacheKey = k
    /\ last.wrapper.data = 1
    /\ Cardinality({ i \in 1..Len(cache) : cache[i].key = k }) = 1
    /\ MapGet(cache, k).data = 1

\* The marks of a key removed on request with no call for it since:
\* wrapper.invalidate(), clear(), invalidate(), invalidateKey().
RemovalMarks == {"invalidated", "cleared", "removed", "keyRemoved"}

\* C21: a miss-triggered fetch or a refresh() whose origin invocation
\* completes writes its entry whatever happened to the key while it was in
\* flight; in particular, when the key was invalidated or cleared in the
\* meantime and is absent, the key is present again once the fetch has
\* completed, with the data that fetch obtained.
C21_InFlightFetchStillWrites ==
  [][\A p \in pending :
       (p.kind \in {"fetch", "refresh"} /\ Resolve(p))
       => /\ MapHas(cache', p.cacheKey)
          /\ MapGet(cache', p.cacheKey).data = p.id
          /\ MapGet(cache', p.cacheKey).cachedAt = now
          /\ last'.wrapper.data = p.id
          /\ (invalidated[p.cacheKey] \in RemovalMarks)
                => /\ invalidated'[p.cacheKey] \notin RemovalMarks
                   /\ invalidated'[p.cacheKey] # "no"]_vars

\* C21 witness: two calls for GET /a overlapped, the first fetch wrote its
\* entry, clear() emptied the store while the second fetch was in flight,
\* and the second fetch has since completed and written the key again.
C21_Witness ==
  /\ invalidated["GET:/a:"] = "refilled"
  /\ last.outcome = "fetch" /\ last.wrapper.cacheKey = "GET:/a:"
  /\ last.wrapper.data = 2
  /\ MapHas(cache, "GET:/a:")
  /\ MapGet(cache, "GET:/a:").data = 2
  /\ pending = {}

\* C23: every entry in the store and every wrapper handed out has
\* expiresAt = cachedAt + ttl seconds, ttl being the configured
\* time-to-live, and 300 seconds for a plugin built without one.
C23_ExpiresAtIsCachedAtPlusTtl ==
  \A seconds \in {IF "ttl" \in cfg.given THEN cfg.ttl ELSE 300} :
    /\ \A i \in 1..Len(cache) :
         cache[i].value.expiresAt =
           cache[i].value.cachedAt + seconds * MsPerSec
    /\ \A w \in wrappers : w.expiresAt = w.cachedAt + seconds * MsPerSec
    /\ last.outcome \in {"hit", "fetch", "refresh"}
         => last.wrapper.expiresAt = last.wrapper.cachedAt + seconds * MsPerSec

\* C23 witness: a plugin built by cache() without a ttl has stored an entry
\* some time after construction, the entry expires 300 seconds after it was
\* cached, and a later call has been a hit handing out the same two dates.
C23_Witness ==
  /\ "ttl" \notin cfg.given
  /\ MapHas(cache, "GET:/a:")
  /\ MapGet(cache, "GET:/a:").cachedAt > 0
  /\ MapGet(cache, "GET:/a:").expiresAt =
       MapGet(cache, "GET:/a:").cachedAt + 300000
  /\ last.outcome = "hit"
  /\ last.wrapper.cachedAt = MapGet(cache, "GET:/a:").cachedAt
  /\ last.wrapper.expiresAt = MapGet(cache, "GET:/a:").expiresAt

\* C24: a wrapper is a snapshot.  No step changes the data, cachedAt or
\* expiresAt of a wrapper already handed out: not refresh() or invalidate()
\* called on it, not an invalidation, a clear or an eviction of its key, not a
\* later write under its key.  A completed refresh() hands out a new wrapper
\* and leaves the one it was called on as it was.
C24_WrappersAreSnapshots ==
  [][/\ \A w \in wrappers : w \in wrappers'
     /\ \A p \in pending :
          (p.kind = "refresh" /\ p \notin pending' /\ Resolve(p))
          => /\ p.on \in wrappers'
             /\ last'.wrapper # p.on
             /\ last'.wrapper.data = p.id
             /\ last'.wrapper \in wrappers']_vars

\* C24 witness: refresh() was called on a wrapper and has completed; the
\* store holds the refreshed entry under the wrapper's key, the refresh
\* handed out a new wrapper, and the old wrapper still has the data and the
\* dates of the entry it was built from.
C24_Witness ==
  \E w \in wrappers :
    /\ last.outcome = "refresh"
    /\ last.wrapper.cacheKey = w.cacheKey
    /\ MapHas(cache, w.cacheKey)
    /\ MapGet(cache, w.cacheKey).data = last.wrapper.data
    /\ w.data = 1 /\ last.wrapper.data = 2
    /\ w.cachedAt < last.wrapper.cachedAt
    /\ w.expiresAt = w.cachedAt + cfg.ttl * MsPerSec

\* C25: in the default store, set on a key that is already present evicts
\* nothing and leaves the number of entries as it was, also when the store
\* is at maxSize; the key gets the new value, every other key keeps its
\* value, and the key moves to the most-recently-used end of the access
\* order, the other keys keeping their relative order.
C25_SetOnPresentKeyEvictsNothing ==
  [][\A key \in StoreKeys : \A value \in StoreEntries :
       (MapHas(cache, key) /\ StoreSet(key, value))
       => /\ MapKeys(cache') = MapKeys(cache)
          /\ Len(cache') = Len(cache)
          /\ MapGet(cache', key) = value
          /\ \A k \in MapKeys(cache) \ {key} :
               MapGet(cache', k) = MapGet(cache, k)
          /\ accessOrder' = Append(Without(accessOrder, key), key)
          /\ accessOrder'[Len(accessOrder')] = key
          /\ Len(accessOrder') = Len(accessOrder)]_vars

\* C25 witness: a store of maxSize 2 is full; the key inserted first has
\* been set again with new data: both keys are still stored, and the key
\* inserted first is the most recently used.
C25_Witness ==
  /\ cfg.maxSize = Finite(2)
  /\ Len(cache) = 2
  /\ cache[1].value.data = 2 /\ cache[2].value.data = 1
  /\ accessOrder = << cache[2].key, cache[1].key >>

\* C26: a stored entry is still stored, unchanged, after every step, unless
\* the step is invalidate() or refresh() of a wrapper of its key, the plugin's
\* invalidate or invalidateKey for its key, clear(), a completed fetch or
\* refresh writing under its key, or one writing a new key into a full store
\* in which the entry's key is the least recently used.  In particular the
\* clock moving on and a call, whatever its lookup finds, leave every entry
\* in place; and an entry that keeps its data keeps its two dates.
C26_EntryLeavesOnlyOnRequest ==
  [][/\ \A k \in MapKeys(cache) :
          \/ MapHas(cache', k) /\ MapGet(cache', k) = MapGet(cache, k)
          \/ \E w \in wrappers :
               w.cacheKey = k /\ (Invalidate(w) \/ Refresh(w))
          \/ PluginClear
          \/ PluginInvalidateKey(k)
          \/ \E r \in cfg.requests : KeyOf(r) = k /\ PluginInvalidate(r)
          \/ \E p \in pending :
               /\ p.kind \in {"fetch", "refresh"}
               /\ \/ p.cacheKey = k
                  \/ /\ ~MapHas(cache, p.cacheKey)
                     /\ SizeAtLeast(Len(cache), cfg.maxSize)
                     /\ Head(accessOrder) = k
               /\ Resolve(p)
     /\ cache' = cache \/ ~Tick
     /\ cache' = cache \/ \A r \in Requests : ~Call(r)
     /\ \A k \in MapKeys(cache) \cap MapKeys(cache') :
          MapGet(cache', k).data = MapGet(cache, k).data
          => MapGet(cache', k) = MapGet(cache, k)]_vars

\* C26 witness: an entry was stored with no other fetch for its key in
\* flight, it has expired, a later call has looked it up, found it expired
\* and is fetching, and the expired entry is still the one stored.
C26_Witness ==
  \E p \in pending :
    /\ p.kind = "fetch"
    /\ MapHas(cache, p.cacheKey)
    /\ firstStored[p.cacheKey].set /\ firstStored[p.cacheKey].solo
    /\ firstStored[p.cacheKey].data = MapGet(cache, p.cacheKey).data
    /\ now > MapGet(cache, p.cacheKey).expiresAt

\* C27 as stated: every intercepted call invokes the origin operation at
\* most once: not at all when its lookup finds a live entry (now <=
\* expiresAt), exactly once when it finds no entry or an expired one or when
\* the verb is not cacheable; and when a call or a refresh settles,
\* successfully or not, no further invocation is made.
C27_AtMostOneInvocationPerCall ==
  [][/\ \A r \in Requests :
          Call(r)
          => \A live \in {Cacheable(r.method)
                            /\ MapHas(cache, KeyOf(r))
                            /\ now <= MapGet(cache, KeyOf(r)).expiresAt} :
               /\ Cardinality(Started) = (IF live THEN 0 ELSE 1)
               /\ SumOver(originCount', OriginTargets) =
                    OriginTotal + (IF live THEN 0 ELSE 1)
     /\ \A p \in pending :
          (Resolve(p) \/ Reject(p))
          => /\ originCount' = originCount
             /\ Started = {}
             /\ pending' = pending \ {p}]_vars

\* C28: refresh() and invalidate() of a wrapper act on the key and on the
\* (verb, path, input) of the call that produced the wrapper.  A wrapper a
\* call is handed, on a hit or after its fetch, carries that call's request
\* and the key derived from it, also when the entry it was built from was
\* written by another call with the same key; refresh() deletes that key,
\* invokes the origin once with that request and, when the invocation
\* completes, writes under that key and hands out a wrapper bound to the
\* same request; invalidate() deletes that key and nothing else.
C28_ClosuresBoundToTheirCall ==
  [][/\ \A w \in wrappers : w.cacheKey = KeyOf(w.req)
     /\ \A r \in Requests :
          (/\ Cacheable(r.method) /\ LookupHit(Store, KeyOf(r))
           /\ pending' = pending /\ Call(r))
          => /\ last'.wrapper.req = r
             /\ last'.wrapper.cacheKey = KeyOf(r)
             /\ last'.wrapper.data = MapGet(cache, KeyOf(r)).data
     /\ \A w \in wrappers :
          (Started # {} /\ Refresh(w))
          => /\ cache' = MapDelete(cache, w.cacheKey)
             /\ Cardinality(Started) = 1
             /\ \A p \in Started :
                  /\ p.kind = "refresh" /\ p.on = w
                  /\ p.req = w.req /\ p.cacheKey = w.cacheKey
     /\ \A w \in wrappers :
          (wrappers' = wrappers /\ last' = last /\ Invalidate(w))
          => /\ cache' = MapDelete(cache, w.cacheKey)
             /\ accessOrder' = Without(accessOrder, w.cacheKey)
             /\ pending' = pending
     /\ \A p \in pending :
          (p.kind \in {"fetch", "refresh"} /\ p \notin pending' /\ Resolve(p))
          => /\ MapGet(cache', p.cacheKey).data = p.id
             /\ p.cacheKey = KeyOf(p.req)
             /\ last'.wrapper.req = p.req
             /\ last'.wrapper.cacheKey = p.cacheKey]_vars

\* C28 witness: with the custom key generator, GET /a without input and
\* GET /a with { id: 1 } share the key 'GET:/a'; wrappers of both calls over
\* the entry of the first invocation are out, the latest call, with
\* { id: 1 }, was a hit, and refresh() of its wrapper has deleted the entry
\* and is invoking the origin with { id: 1 }.
C28_Witness ==
  \E p \in pending :
    /\ cfg.keyGenerator = "custom"
    /\ p.kind = "refresh" /\ p.cacheKey = "GET:/a"
    /\ p.req.input = Obj1
    /\ last.outcome = "hit" /\ p.on = last.wrapper
    /\ \E w \in wrappers :
         /\ w.req.input = Undefined /\ w.cacheKey = "GET:/a"
         /\ w.data = p.on.data
    /\ ~MapHas(cache, "GET:/a")

C30_AccessOrderMatchesStore ==
  /\ \A k \in MapKeys(cache) :
       /\ Cardinality({ i \in 1..Len(accessOrder) : accessOrder[i] = k }) = 1
       /\ Cardinality({ i \in 1..Len(cache) : cache[i].key = k }) = 1
  /\ \A i \in 1..Len(accessOrder) : MapHas(cache, accessOrder[i])

\* C22 as stated: each plugin instance owns its own store.  No call,
\* refresh, invalidate or clear on one instance ever creates, removes or
\* changes an entry of another instance, and a key cached in one instance
\* is a miss in another.
C22_AsStated ==
  [][/\ PeerStore' = PeerStore \/ PeerStep
     /\ Store' = Store \/ ~PeerStep
     /\ \A r \in cfg.requests :
          (/\ LookupHit(Store, KeyOf(r))
           /\ ~MapHas(peer.cache, KeyOf(r))
           /\ PeerCall(r))
          => /\ MapHas(PeerStore'.cache, KeyOf(r))
             /\ MapGet(PeerStore'.cache, KeyOf(r)) = NewEntry(0, now)]_vars

\* C22, amended: each plugin instance configured without the storage
\* option owns its own store.  No call, refresh, invalidate or clear on one
\* such instance ever creates, removes or changes an entry of another, and a
\* key cached in one of them is a miss in another.
C22_DefaultStorePerInstance ==
  [][cfg.storage = NewStorage =>
       /\ PeerStore' = PeerStore \/ PeerStep
       /\ Store' = Store \/ ~PeerStep
       /\ \A r \in cfg.requests :
            (/\ LookupHit(Store, KeyOf(r))
             /\ ~MapHas(peer.cache, KeyOf(r))
             /\ PeerCall(r))
            => /\ MapHas(PeerStore'.cache, KeyOf(r))
               /\ MapGet(PeerStore'.cache, KeyOf(r)) = NewEntry(0, now)]_vars

\* Both instances have cached the key, each its own origin's data, and the
\* first instance's entry has since been invalidated while the second
\* instance's entry is still there.
C22_Witness ==
  \E r \in cfg.requests :
    /\ cfg.storage = NewStorage
    /\ invalidated[KeyOf(r)] = "invalidated"
    /\ ~MapHas(cache, KeyOf(r))
    /\ \E w \in wrappers : w.cacheKey = KeyOf(r) /\ w.data = 1
    /\ MapHas(peer.cache, KeyOf(r))
    /\ MapGet(peer.cache, KeyOf(r)).data = 0
    /\ MapGet(peer.cache, KeyOf(r)).cachedAt > 0

\* C31 as stated: at every instant, a cacheable call for a stored entry is
\* served from the store (it invokes no origin operation and returns a
\* wrapper over that entry) exactly when a wrapper over that entry reports
\* isStale = false.
C31_LookupAgreesWithIsStale ==
  [][\A r \in cfg.requests : \A w \in wrappers :
       (/\ Cacheable(r.method)
        /\ w.cacheKey = KeyOf(r)
        /\ MapHas(cache, w.cacheKey)
        /\ WrapperOver(MapGet(cache, w.cacheKey), w.cacheKey, w.req) = w
        /\ Call(r))
       => ((Started = {} /\ last'.outcome = "hit"
              /\ last'.wrapper.data = w.data)
           <=> ~isStale(w))]_vars

\* C32 as stated: a cacheable call that finds an expired entry and whose
\* origin invocation then fails leaves the store exactly as it was: neither
\* its lookup nor its failure changes the entries or the
\* least-recently-used order.
C32_AsStated ==
  [][\/ cache' = cache /\ accessOrder' = accessOrder
     \/ /\ \A r \in cfg.requests :
             ~(/\ Cacheable(r.method)
               /\ MapHas(cache, KeyOf(r)) /\ ~LookupHit(Store, KeyOf(r))
               /\ Call(r))
        /\ \A p \in pending :
             ~(p.kind = "fetch" /\ p \notin pending' /\ Reject(p))]_vars

\* C32, amended: such a call leaves the entries of the store exactly as
\* they were; its lookup moves the key of the expired entry to the
\* most-recently-used end of the order and leaves the order of the other
\* keys alone, and its failure changes nothing.
C32_FailedCallOnlyPromotes ==
  [][/\ \A r \in cfg.requests :
          (/\ Started # {}
           /\ Cacheable(r.method)
           /\ MapHas(cache, KeyOf(r)) /\ ~LookupHit(Store, KeyOf(r))
           /\ Call(r))
          => /\ cache' = cache
             /\ accessOrder' =
                  Append(Without(accessOrder, KeyOf(r)), KeyOf(r))
     /\ (cache' = cache /\ accessOrder' = accessOrder)
        \/ \A p \in pending :
             ~(p.kind = "fetch" /\ p \notin pending' /\ Reject(p))]_vars

\* C32 witness: two entries are stored, the older one has expired, a call
\* for it has looked it up and its origin invocation has failed; both
\* entries are as they were and the expired entry's key is now the most
\* recently used.
C32_Witness ==
  /\ cfg.maxSize = Infinity
  /\ last.outcome = "error" /\ pending = {}
  /\ invalidated[WarmKey] = "failed"
  /\ StorageKeys(Store) = << WarmKey, "GET:/a:{\"id\":1}" >>
  /\ accessOrder = << "GET:/a:{\"id\":1}", WarmKey >>
  /\ MapGet(cache, WarmKey).data = 0
  /\ MapGet(cache, WarmKey).expiresAt <= now

\* C33: the clock never goes backwards, and then every stored entry has
\* cachedAt <= now, before and after every step; an entry a step writes is
\* stamped with the instant of the write, which is not earlier than the
\* cachedAt of the entry it replaces nor than the cachedAt of any entry
\* written for that key before (each write hands out a wrapper with the
\* cachedAt it wrote).
C33_CachedAtNeverDecreases ==
  [][/\ now' >= now
     /\ \A i \in 1..Len(cache') : cache'[i].value.cachedAt <= now'
     /\ cache' = cache
        \/ \A k \in MapKeys(cache') :
             \/ MapHas(cache, k) /\ MapGet(cache, k) = MapGet(cache', k)
             \/ /\ MapGet(cache', k).cachedAt = now'
                /\ MapHas(cache, k)
                   => MapGet(cache, k).cachedAt <= MapGet(cache', k).cachedAt
                /\ \A w \in wrappers :
                     w.cacheKey = k
                     => w.cachedAt <= MapGet(cache', k).cachedAt]_vars

\* C33 witness: a refresh has rewritten the entry of a key at a later
\* instant than an earlier write for that key, whose wrapper is still out.
C33_Witness ==
  \E w \in wrappers :
    /\ last.outcome = "refresh"
    /\ last.wrapper.cacheKey = w.cacheKey
    /\ MapHas(cache, w.cacheKey)
    /\ MapGet(cache, w.cacheKey).cachedAt = last.wrapper.cachedAt
    /\ w.cachedAt < MapGet(cache, w.cacheKey).cachedAt
    /\ MapGet(cache, w.cacheKey).cachedAt <= now

\* C34 as stated: for one key, the result of an origin invocation that
\* started earlier never replaces a stored entry holding the result of an
\* invocation that started later.  (Invocations are numbered in the order
\* they start, and an entry's data is the number of its invocation.)
C34_AsStated ==
  [][\A p \in pending :
       (/\ p.kind \in {"fetch", "refresh"}
        /\ MapHas(cache, p.cacheKey)
        /\ p \notin pending'
        /\ Resolve(p))
       => MapGet(cache, p.cacheKey).data < p.id]_vars

\* C34, amended: for one key, the result of every fetch or refresh that
\* completes is written over whatever entry is stored; the stored entry is
\* the result of the invocation that completed last, also when the entry it
\* replaces holds the result of an invocation that started later.
C34_LastCompletedWins ==
  [][\A p \in pending :
       (/\ p.kind \in {"fetch", "refresh"}
        /\ p \notin pending'
        /\ Resolve(p))
       => /\ MapHas(cache', p.cacheKey)
          /\ MapGet(cache', p.cacheKey).data = p.id
          /\ MapGet(cache', p.cacheKey).cachedAt = now
          /\ Cardinality({ i \in 1..Len(cache') :
                             cache'[i].key = p.cacheKey }) = 1]_vars

\* C34 witness: two calls for one key overlapped; the second invocation
\* completed first and its result was stored and handed out, then the first
\* invocation completed and its result is the one stored now.
C34_Witness ==
  \E w \in wrappers :
    /\ w.data = 2 /\ w.cacheKey = last.wrapper.cacheKey
    /\ last.outcome = "fetch" /\ last.wrapper.data = 1
    /\ MapHas(cache, w.cacheKey)
    /\ MapGet(cache, w.cacheKey).data = 1
    /\ MapGet(cache, w.cacheKey).cachedAt >= w.cachedAt
    /\ pending = {}

C37_EvictionIgnoresExpiry ==
  [][/\ cache' = cache
        \/ \A key \in StoreKeys :
             StoreSetNow(key)
             => /\ \A k \in MapKeys(cache) \ MapKeys(cache') :
                     Len(accessOrder) > 0 /\ k = Head(accessOrder)
                /\ (SizeAtLeast(Len(cache), cfg.maxSize)
                      /\ ~MapHas(cache, key))
                   => /\ ~MapHas(cache', Head(accessOrder))
                      /\ \A k \in MapKeys(cache) \ {Head(accessOrder)} :
                           /\ MapHas(cache', k)
                           /\ MapGet(cache', k) = MapGet(cache, k)
     /\ accessOrder' = accessOrder
        \/ \A key \in StoreKeys :
             (MapHas(cache, key) /\ ~LookupHit(Store, key) /\ StoreGet(key))
             => /\ cache' = cache
                /\ accessOrder' = Append(Without(accessOrder, key), key)]_vars

\* C37 witness: a store of two entries is full; the key written first has
\* expired and was looked up after the other key was written, so it is the
\* most recently used, and the other key, whose entry is live, is the one
\* the next insertion evicts.
C37_Witness ==
  \E k1 \in StoreKeys : \E k2 \in StoreKeys :
    /\ cfg.maxSize = Finite(2)
    /\ StorageKeys(Store) = <<k1, k2>>
    /\ accessOrder = <<k2, k1>>
    /\ MapGet(cache, k1).cachedAt < MapGet(cache, k2).cachedAt
    /\ ~LookupHit(Store, k1) /\ LookupHit(Store, k2)
    /\ StorageKeys(StorageSet(Store, CHOOSE k \in StoreKeys : k \notin {k1, k2},
                              NewEntry(1, NewCachedAt)))[1] = k1

\* C38: invalidation is idempotent and harmless on an absent key.
\* wrapper.invalidate() for a key that is not stored, a second
\* invalidate() included, leaves the entries and the access order as they
\* are and raises nothing (no failure is returned, nothing is invoked);
\* and for the key of every wrapper, deleting it from the store twice
\* leaves what deleting it once leaves.
C38_InvalidateIdempotent ==
  [][\A w \in wrappers :
       /\ StorageDelete(StorageDelete(Store, w.cacheKey), w.cacheKey)
            = StorageDelete(Store, w.cacheKey)
       /\ ~MapHas(cache, w.cacheKey)
          => /\ StorageDelete(Store, w.cacheKey) = Store
             /\ (pending' = pending /\ Invalidate(w))
                => /\ cache' = cache /\ accessOrder' = accessOrder
                   /\ last' = last /\ wrappers' = wrappers
                   /\ originCount' = originCount]_vars

\* C38 witness: two entries were cached, invalidate() of the first one's
\* wrapper has removed it, and no call for it has been made since; the
\* wrapper is still in the caller's hands, a further invalidate() finds the
\* key absent, and the other entry is stored.
C38_Witness ==
  \E w \in wrappers :
    /\ w.cacheKey = "GET:/a:"
    /\ invalidated[w.cacheKey] = "invalidated"
    /\ ~MapHas(cache, w.cacheKey)
    /\ StorageKeys(Store) = << "GET:/a:{\"id\":1}" >>
    /\ accessOrder = << "GET:/a:{\"id\":1}" >>
    /\ pending = {}

\* C39: a call and a refresh() complete as soon as their own origin
\* invocation completes.  In every state, whatever else is in flight or
\* stored for the same or another key, each suspended handler and refresh
\* can take the result of its invocation at once, and that step returns to
\* the caller (a wrapper over its own result, or the raw result) and leaves
\* every other suspended handler and refresh suspended; and it can as well
\* take the failure of its invocation at once and hand it to the caller.
C39_CompletesWithItsOwnInvocation ==
  \A p \in pending :
    /\ ENABLED (/\ Resolve(p)
                /\ pending' = pending \ {p}
                /\ last'.outcome = p.kind
                /\ IF p.kind = "raw" THEN last'.raw = p.id
                   ELSE last'.wrapper.data = p.id)
    /\ ENABLED (/\ Reject(p)
                /\ pending' = pending \ {p}
                /\ last'.outcome = "error")

\* C39 witness: two calls for one key overlapped; the one that started
\* later has completed and returned its wrapper while the one that started
\* earlier is still waiting for its own invocation.
C39_Witness ==
  \E q \in pending :
    /\ q.kind = "fetch"
    /\ last.outcome = "fetch"
    /\ last.wrapper.cacheKey = q.cacheKey
    /\ last.wrapper.data > q.id
    /\ MapHas(cache, q.cacheKey)
    /\ MapGet(cache, q.cacheKey).data = last.wrapper.data

====
